---- MODULE Spec2Model ----
(***************************************************************************)
(* Idempotency persistence layer of aws_lambda_powertools                  *)
(* (utilities/idempotency/persistence.py): DataRecord, the                 *)
(* BasePersistenceLayer operations save_inprogress / save_success /        *)
(* save_error / get_record, and the DynamoDBPersistenceLayer backend       *)
(* requests put_item / update_item / get_item / delete_item.               *)
(*                                                                         *)
(* Invocations run in processes; every process owns one persistence layer  *)
(* (and its local cache), all of them share one DynamoDB table and one     *)
(* wall clock in whole seconds.  The clock may advance between any two     *)
(* steps of a call.                                                        *)
(***************************************************************************)
EXTENDS Integers, Sequences, FiniteSets, TLC

(* ------------------------------ bounds --------------------------------- *)
MaxClock == 3          \* the clock runs over 1..MaxClock
MaxTTL == 1            \* expires_after is drawn from 0..MaxTTL
MaxCache == 1          \* local_cache_maxsize of every process
MaxVal == 2            \* integers inside JSON documents are 0..MaxVal

Invs == {"i1", "i2"}   \* invocation slots
Procs == {"p1", "p2"}  \* processes (one persistence layer each)

\* i1 always runs in p1; i2 runs in either process
ProcsOf(i) == IF i = "i1" THEN {"p1"} ELSE Procs

(* ------------------------- JSON documents ------------------------------ *)
\* A Python dict with string keys is the sequence of its <<key, value>>
\* items in insertion order.

\* dict.__eq__: the same items, whatever the insertion order
DictEq(d1, d2) ==
  {d1[j] : j \in DOMAIN d1} = {d2[j] : j \in DOMAIN d2}

RECURSIVE dumps_items(_)
dumps_items(d) ==
  IF d = <<>> THEN <<>>
  ELSE IF Len(d) = 1 THEN <<d[1][1], ":", ToString(d[1][2])>>
  ELSE <<d[1][1], ":", ToString(d[1][2]), ",">> \o dumps_items(Tail(d))

\* json.dumps of a dict: the text as a sequence of tokens, items written in
\* insertion order (no sort_keys)
json_dumps(d) == <<"{">> \o dumps_items(d) \o <<"}">>

parse_int(tok) == CHOOSE n \in 0..MaxVal : ToString(n) = tok

\* json.loads of a text written by json.dumps: item j starts at token 4j-2
json_loads(s) ==
  [j \in 1..((Len(s) - 1) \div 4) |-> <<s[4 * j - 2], parse_int(s[4 * j])>>]

\* hashlib.md5(...).hexdigest(): a digest of the text, taken collision free
md5(s) == <<"md5">> \o s

(* ------------------------------ payloads ------------------------------- *)
\* Lambda events; event_key is the jmespath expression "body"
Payloads ==
  { [body |-> << <<"a", 1>> >>, extra |-> 0],
    [body |-> << <<"a", 2>> >>, extra |-> 0] }

\* events whose "body" holds the same JSON object with its members listed in
\* either order, and one that differs outside "body" only
ReorderedPayloads ==
  { [body |-> << <<"a", 1>>, <<"b", 2>> >>, extra |-> 0],
    [body |-> << <<"b", 2>>, <<"a", 1>> >>, extra |-> 0],
    [body |-> << <<"a", 1>>, <<"b", 2>> >>, extra |-> 1] }

Results == { << <<"a", 1>> >>, << <<"a", 2>> >> }

event_key_jmespath_search(lambda_event) == lambda_event.body

get_hashed_idempotency_key(lambda_event) ==
  md5(json_dumps(event_key_jmespath_search(lambda_event)))

Keys == {get_hashed_idempotency_key(e) : e \in Payloads \cup ReorderedPayloads}

(* ------------------------------ DataRecord ----------------------------- *)
STATUS_CONSTANTS ==
  [NOTEXISTING |-> "DOESNOTEXIST", INPROGRESS |-> "INPROGRESS",
   COMPLETED |-> "COMPLETED", EXPIRED |-> "EXPIRED", ERROR |-> "ERROR"]

STATUS_VALUES == {STATUS_CONSTANTS[n] : n \in DOMAIN STATUS_CONSTANTS}

None == <<>>           \* response_data of a record without a response

DataRecord(idempotency_key, st, expiry_timestamp, response_data) ==
  [idempotency_key |-> idempotency_key, status |-> st,
   expiry_timestamp |-> expiry_timestamp, response_data |-> response_data]

NoRecord == DataRecord(<<>>, "", 0, None)

\* DataRecord.is_expired at time t
is_expired(rec, t) ==
  IF rec.expiry_timestamp # 0 THEN t > rec.expiry_timestamp ELSE FALSE

\* DataRecord.status at time t ("InvalidStatusError" when the getter raises)
status(rec, t) ==
  IF is_expired(rec, t) THEN STATUS_CONSTANTS["EXPIRED"]
  ELSE IF rec.status \in STATUS_VALUES THEN rec.status
  ELSE "InvalidStatusError"

\* DataRecord.response_json_as_dict
response_json_as_dict(rec) == json_loads(rec.response_data)

(* --------------------------- LRUDict (cache) --------------------------- *)
\* A cache is the sequence of its records, least recently used first.
cache_keys(c) == {c[j].idempotency_key : j \in DOMAIN c}

cache_index(c, k) == CHOOSE j \in DOMAIN c : c[j].idempotency_key = k

cache_remove(c, k) ==
  IF k \in cache_keys(c)
  THEN LET n == cache_index(c, k)
       IN  [j \in 1..(Len(c) - 1) |-> IF j < n THEN c[j] ELSE c[j + 1]]
  ELSE c

\* LRUDict.get: the record, None when there is none
LRUDict_get(c, k) ==
  IF k \in cache_keys(c) THEN c[cache_index(c, k)] ELSE NoRecord

\* the order after a get: a hit becomes the most recently used
LRUDict_touch(c, k) ==
  IF k \in cache_keys(c)
  THEN Append(cache_remove(c, k), c[cache_index(c, k)])
  ELSE c

\* LRUDict.__setitem__: insert or replace as most recently used, then drop
\* the least recently used records beyond max_size
LRUDict_setitem(c, rec) ==
  LET d == Append(cache_remove(c, rec.idempotency_key), rec)
  IN  IF Len(d) > MaxCache THEN SubSeq(d, Len(d) - MaxCache + 1, Len(d))
      ELSE d

(* ------------------------------- state --------------------------------- *)
VARIABLES
  expires_after,    \* configured TTL in seconds
  use_local_cache,  \* per process: is the local cache enabled
  expiry_attr, status_attr, data_attr,   \* DynamoDB attribute names
  slots,            \* the invocations of the scenario
  inputs,           \* the Lambda events of the scenario
  clock,            \* int(datetime.datetime.now().timestamp())
  table,            \* DynamoDB table: key -> item (NoRow when absent)
  cache,            \* per process: self._cache
  pc,               \* per invocation: where it stands
  procOf,           \* per invocation: the process it runs in
  event,            \* per invocation: its Lambda event
  data_record,      \* per invocation: the DataRecord of the running call
  now,              \* per invocation: `now` of _put_record
  status_value,     \* per invocation: data_record.status read by _update_record
  result,           \* per invocation: the handler's result given to save_success
  \* history of the calls (observations only, never read by the operations)
  last,             \* the request that has just been made, with what it found
  lastOp,           \* per key: the latest request that changed its item
  seen,             \* per key: the COMPLETED record some get_record returned
  conc,             \* per invocation: save_inprogress calls overlapping its own
  ipClean,          \* per invocation: no live item when its save_inprogress began
  ipDone            \* per invocation: outcome of its call, kept for the overlapping ones

config == <<expires_after, use_local_cache, expiry_attr, status_attr, data_attr,
            slots, inputs>>
locals == <<procOf, event, data_record, now, status_value, result>>
races == <<conc, ipClean, ipDone>>
vars == <<config, clock, table, cache, pc, locals, last, lastOp, seen, races>>

NoRow == [a \in {} |-> 0]

\* BasePersistenceLayer._get_expiry_timestamp
get_expiry_timestamp == clock + expires_after

(* ------------------------- DynamoDB requests --------------------------- *)
\* Faulty variant: the condition also accepts an expiry equal to :now
put_condition_le(item, t) ==
  \/ item = NoRow
  \/ /\ "expiration" \in DOMAIN item
     /\ item["expiration"] <= t

\* ConditionExpression of _put_record against the stored item:
\* attribute_not_exists(key_attr) OR expiration < :now
put_condition(item, t) ==
  \/ item = NoRow
  \/ /\ "expiration" \in DOMAIN item
     /\ item["expiration"] < t

\* Faulty variant: the put keeps the attributes it does not write
put_item_merge(item, rec) ==
  [expiration |-> rec.expiry_timestamp,
   status |-> STATUS_CONSTANTS["INPROGRESS"]] @@ item

\* Item written by put_item: it replaces the stored item as a whole
put_item(item, rec) ==
  [expiration |-> rec.expiry_timestamp,
   status |-> STATUS_CONSTANTS["INPROGRESS"]]

\* Faulty variant: the put is made although the condition fails
conditional_put_always(item, rec, t) == put_item(item, rec)

\* put_item with the ConditionExpression: the stored item afterwards (the
\* request changes nothing when the condition fails)
conditional_put(item, rec, t) ==
  IF put_condition(item, t) THEN put_item(item, rec) ELSE item

\* Faulty variant: the call is refused while some cache holds a live record
put_record_outcome_unless_cached(item, t) ==
  IF /\ put_condition(item, t)
     /\ \A p \in Procs : \A j \in DOMAIN cache[p] : is_expired(cache[p][j], t)
  THEN "ok" ELSE "ItemAlreadyExistsError"

\* _put_record: how the call ends (ConditionalCheckFailedException is
\* raised again as ItemAlreadyExistsError)
put_record_outcome(item, t) ==
  IF put_condition(item, t) THEN "ok" ELSE "ItemAlreadyExistsError"

\* Faulty variant: the update leaves the response out
update_item_no_data(item, rec, st) ==
  (expiry_attr :> rec.expiry_timestamp) @@ (status_attr :> st) @@ item

\* update_item SET #response_data, #expiry, #status: creates the item when
\* there is none, keeps every other attribute
update_item(item, rec, st) ==
  (data_attr :> rec.response_data) @@ (expiry_attr :> rec.expiry_timestamp)
    @@ (status_attr :> st) @@ item

\* Faulty variant: the delete is lost
delete_item_kept(item) == item

\* delete_item: no item afterwards, whether or not there was one
delete_item(item) == NoRow

\* _item_to_data_record (KeyError when item[...] has no such attribute)
item_has_attrs(item) == {status_attr, expiry_attr} \subseteq DOMAIN item

item_to_data_record(k, item) ==
  DataRecord(k, item[status_attr], item[expiry_attr],
             IF data_attr \in DOMAIN item THEN item[data_attr] ELSE None)

\* Faulty variant: the read treats an item whose expiry has passed as missing
get_item_outcome_live(item) ==
  IF item = NoRow \/ item[expiry_attr] < clock THEN "ItemNotFoundError"
  ELSE IF item_has_attrs(item) THEN "record" ELSE "KeyError"

\* _get_record: the outcome of the consistent read of an item
get_item_outcome(item) ==
  IF item = NoRow THEN "ItemNotFoundError"
  ELSE IF item_has_attrs(item) THEN "record" ELSE "KeyError"

\* _retrieve_from_cache: the record get_record returns from the cache
\* (NoRecord when it goes on to the persistence store)
retrieve_from_cache(c, k, t) ==
  LET cached_record == LRUDict_get(c, k)
  IN  IF cached_record # NoRecord /\ ~is_expired(cached_record, t)
      THEN cached_record ELSE NoRecord

\* Faulty variant: an expired record stays in the cache
cache_after_retrieve_keep(c, k, t) == LRUDict_touch(c, k)

\* self._cache after _retrieve_from_cache
cache_after_retrieve(c, k, t) ==
  LET cached_record == LRUDict_get(c, k)
  IN  IF cached_record = NoRecord THEN c
      ELSE IF is_expired(cached_record, t) THEN cache_remove(c, k)
      ELSE LRUDict_touch(c, k)

\* Faulty variant: the record is not saved
save_to_cache_skip(c, p, rec) == c

\* _save_to_cache when the cache is enabled
save_to_cache(c, p, rec) ==
  IF use_local_cache[p] THEN [c EXCEPT ![p] = LRUDict_setitem(@, rec)] ELSE c

(* ------------------------------ history -------------------------------- *)
NoOp == [op |-> "none", proc |-> "p1", result |-> <<>>, exp |-> 0,
         creator |-> "none"]
NoSeen == [resp |-> <<>>, exp |-> 0]
NoDone == [res |-> "none", exp |-> 0, clean |-> FALSE]
NoRace == [kind |-> "none", expired |-> FALSE]
NoStep == [op |-> "none", inv |-> "none", proc |-> "p1", key |-> <<>>,
           outcome |-> "none", rec |-> NoRecord, src |-> "none", now |-> 0,
           prevRow |-> NoRow, prevOp |-> NoOp, cached |-> NoRecord,
           prior |-> NoSeen, race |-> NoRace]

\* the stored status of an item ("none" when there is no item)
stored_status(item) ==
  IF item = NoRow THEN "none"
  ELSE IF status_attr \in DOMAIN item THEN item[status_attr] ELSE "missing"

\* a live record: an item whose expiry has not passed at time t
live(item, t) ==
  /\ item # NoRow
  /\ expiry_attr \in DOMAIN item
  /\ item[expiry_attr] >= t

\* the record process p caches for key k (NoRecord when it caches none)
cached_of(p, k) ==
  IF use_local_cache[p] THEN LRUDict_get(cache[p], k) ELSE NoRecord

(* ------------------------------- Init ---------------------------------- *)
InitLayer ==
  /\ expires_after \in 0..MaxTTL
  /\ use_local_cache = [p \in Procs |-> p = "p1"]
  /\ clock = 1
  /\ cache = [p \in Procs |-> <<>>]
  /\ pc = [i \in Invs |-> "idle"]
  /\ procOf = [i \in Invs |-> "p1"]
  /\ event = [i \in Invs |-> CHOOSE e \in Payloads : TRUE]
  /\ data_record = [i \in Invs |-> NoRecord]
  /\ now = [i \in Invs |-> 0]
  /\ status_value = [i \in Invs |-> ""]
  /\ result = [i \in Invs |-> <<>>]
  /\ last = NoStep
  /\ lastOp = [k \in Keys |-> NoOp]
  /\ seen = [k \in Keys |-> NoSeen]
  /\ conc = [i \in Invs |-> {}]
  /\ ipClean = [i \in Invs |-> FALSE]
  /\ ipDone = [i \in Invs |-> NoDone]

\* the attribute names DynamoDBPersistenceLayer takes by default
DefaultAttrs ==
  /\ expiry_attr = "expiration"
  /\ status_attr = "status"
  /\ data_attr = "data"

\* two concurrent invocations of one event
Init ==
  /\ InitLayer
  /\ DefaultAttrs
  /\ table = [k \in Keys |-> NoRow]
  /\ slots = Invs
  /\ inputs = {CHOOSE e \in Payloads : TRUE}

\* one invocation at a time, of several events
InitCache ==
  /\ InitLayer
  /\ DefaultAttrs
  /\ table = [k \in Keys |-> NoRow]
  /\ slots = {"i1"}
  /\ inputs = Payloads

\* one invocation at a time, of events with one JSON value under "body"
InitKeys ==
  /\ InitLayer
  /\ DefaultAttrs
  /\ table = [k \in Keys |-> NoRow]
  /\ slots = {"i1"}
  /\ inputs = ReorderedPayloads

\* items as any writer of the table may have left them: any expiry from 0
\* on, any status string ("" for a NULL status)
StoredRows ==
  { [expiration |-> x, status |-> st] :
      x \in 0..MaxClock, st \in STATUS_VALUES \cup {"", "UNKNOWN"} }

\* one invocation at a time of one event, whose key holds any of these items
InitRows ==
  /\ InitLayer
  /\ DefaultAttrs
  /\ slots = {"i1"}
  /\ inputs = {CHOOSE e \in Payloads : TRUE}
  /\ \E row \in StoredRows :
       table = [k \in Keys |->
                 IF k = get_hashed_idempotency_key(CHOOSE e \in Payloads : TRUE)
                 THEN row ELSE NoRow]

\* one invocation at a time of one event, under any choice of the attribute
\* names given to DynamoDBPersistenceLayer
InitAttrs ==
  /\ InitLayer
  /\ expiry_attr \in {"expiration", "expires_at"}
  /\ status_attr \in {"status", "state"}
  /\ data_attr \in {"data", "response"}
  /\ table = [k \in Keys |-> NoRow]
  /\ slots = {"i1"}
  /\ inputs = {CHOOSE e \in Payloads : TRUE}

(* ------------------------------ actions -------------------------------- *)
\* the call chain of invocation i is over: its locals are gone
Return(i) ==
  /\ pc' = [pc EXCEPT ![i] = "idle"]
  /\ procOf' = [procOf EXCEPT ![i] = "p1"]
  /\ event' = [event EXCEPT ![i] = CHOOSE e \in Payloads : TRUE]
  /\ data_record' = [data_record EXCEPT ![i] = NoRecord]
  /\ now' = [now EXCEPT ![i] = 0]
  /\ status_value' = [status_value EXCEPT ![i] = ""]
  /\ result' = [result EXCEPT ![i] = <<>>]

\* the clock advances by a second; a seen record is forgotten once expired
Tick ==
  /\ clock < MaxClock
  /\ clock' = clock + 1
  /\ seen' = [k \in Keys |-> IF seen[k].exp < clock' THEN NoSeen ELSE seen[k]]
  /\ last' = NoStep
  /\ UNCHANGED <<config, table, cache, pc, locals, lastOp, races>>

\* save_inprogress, lines 216-220: the record to create, and _put_record,
\* line 431: now = datetime.datetime.now()
SaveInprogressBegin(i, p, e) ==
  LET k == get_hashed_idempotency_key(e)
      others == {j \in Invs \ {i} :
                   pc[j] = "put_item" /\ data_record[j].idempotency_key = k}
  IN  /\ pc[i] = "idle"
      /\ procOf' = [procOf EXCEPT ![i] = p]
      /\ event' = [event EXCEPT ![i] = e]
      /\ data_record' = [data_record EXCEPT ![i] =
           DataRecord(k, STATUS_CONSTANTS["INPROGRESS"], get_expiry_timestamp, None)]
      /\ now' = [now EXCEPT ![i] = clock]
      /\ pc' = [pc EXCEPT ![i] = "put_item"]
      /\ conc' = [j \in Invs |-> IF j = i THEN others
                                 ELSE IF j \in others THEN conc[j] \cup {i}
                                 ELSE conc[j]]
      /\ ipClean' = [ipClean EXCEPT ![i] = ~live(table[k], clock)]
      /\ ipDone' = [ipDone EXCEPT ![i] = NoDone]
      /\ last' = NoStep
      /\ UNCHANGED <<config, clock, table, cache, status_value, result,
                     lastOp, seen>>

\* the outcome of a pair of overlapping save_inprogress calls, when the
\* call of i ends with res after the call of j and no other request has
\* changed the item since
race_of(i, j, res) ==
  [kind |-> IF res = "ok" /\ ipDone[j].res = "ok" THEN "both"
            ELSE IF res = "ok" \/ ipDone[j].res = "ok" THEN "one"
            ELSE "neither",
   expired |-> ipDone[j].exp < now[i]]

\* _put_record, lines 434-445, and save_inprogress, lines 225-226
PutItem(i) ==
  LET k == data_record[i].idempotency_key
      p == procOf[i]
      ok == put_record_outcome(table[k], now[i]) = "ok"
      waiting == {j \in conc[i] : pc[j] = "put_item"}
      done == {j \in conc[i] : ipDone[j].res # "none"}
  IN  /\ pc[i] = "put_item"
      /\ IF ok
         THEN /\ table' = [table EXCEPT ![k] =
                   conditional_put(@, data_record[i], now[i])]
              /\ cache' = save_to_cache(cache, p, data_record[i])
              /\ pc' = [pc EXCEPT ![i] = "handler"]
              /\ data_record' = [data_record EXCEPT ![i] = NoRecord]
              /\ now' = [now EXCEPT ![i] = 0]
              /\ lastOp' = [lastOp EXCEPT ![k] =
                   [op |-> "put", proc |-> p, result |-> <<>>,
                    exp |-> data_record[i].expiry_timestamp, creator |-> i]]
              /\ UNCHANGED <<procOf, event, status_value, result>>
         ELSE \* ItemAlreadyExistsError
              /\ table' = [table EXCEPT ![k] =
                   conditional_put(@, data_record[i], now[i])]
              /\ Return(i)
              /\ UNCHANGED <<cache, lastOp>>
      /\ conc' = [conc EXCEPT ![i] = {}]
      /\ ipClean' = [ipClean EXCEPT ![i] = FALSE]
      /\ ipDone' = [j \in Invs |->
           IF j = i
           THEN IF waiting # {}
                THEN [res |-> IF ok THEN "ok" ELSE "exists",
                      exp |-> data_record[i].expiry_timestamp,
                      clean |-> ipClean[i]]
                ELSE NoDone
           ELSE IF j \in done /\ \A h \in Invs \ {i} : j \notin conc[h]
                THEN NoDone ELSE ipDone[j]]
      /\ last' = [NoStep EXCEPT
           !.op = "put", !.inv = i, !.proc = p, !.key = k,
           !.outcome = IF ok THEN "ok" ELSE "ItemAlreadyExistsError",
           !.rec = data_record[i], !.now = now[i],
           !.prevRow = table[k], !.prevOp = lastOp[k],
           !.cached = cached_of(p, k),
           !.race = IF /\ done # {}
                       /\ ipClean[i]
                       /\ \A j \in done :
                            /\ ipDone[j].clean
                            /\ ipDone[j].res = "ok" =>
                                 lastOp[k].op = "put" /\ lastOp[k].creator = j
                    THEN race_of(i, CHOOSE j \in done : TRUE,
                                 IF ok THEN "ok" ELSE "exists")
                    ELSE NoRace]
      /\ UNCHANGED <<config, clock, seen>>

\* save_success, lines 190-197: the record to store
SaveSuccessBegin(i, r) ==
  /\ pc[i] = "handler"
  /\ result' = [result EXCEPT ![i] = r]
  /\ data_record' = [data_record EXCEPT ![i] =
       DataRecord(get_hashed_idempotency_key(event[i]), STATUS_CONSTANTS["COMPLETED"],
                  get_expiry_timestamp, json_dumps(r))]
  /\ pc' = [pc EXCEPT ![i] = "update_status"]
  /\ last' = NoStep
  /\ UNCHANGED <<config, clock, table, cache, procOf, event, now, status_value,
                 lastOp, seen, races>>

\* _update_record, line 455: ":status": data_record.status
UpdateRecordStatus(i) ==
  /\ pc[i] = "update_status"
  /\ status_value' = [status_value EXCEPT ![i] = status(data_record[i], clock)]
  /\ pc' = [pc EXCEPT ![i] = "update_item"]
  /\ last' = NoStep
  /\ UNCHANGED <<config, clock, table, cache, procOf, event, data_record, now,
                 result, lastOp, seen, races>>

\* _update_record, lines 449-462, and save_success, lines 204-205
UpdateItem(i) ==
  LET k == data_record[i].idempotency_key
      p == procOf[i]
  IN  /\ pc[i] = "update_item"
      /\ table' = [table EXCEPT ![k] = update_item(@, data_record[i], status_value[i])]
      /\ cache' = save_to_cache(cache, p, data_record[i])
      /\ lastOp' = [lastOp EXCEPT ![k] =
           [op |-> "update", proc |-> p, result |-> result[i],
            exp |-> data_record[i].expiry_timestamp,
            creator |-> IF table[k] = NoRow THEN "none" ELSE lastOp[k].creator]]
      /\ last' = [NoStep EXCEPT
           !.op = "update", !.inv = i, !.proc = p, !.key = k, !.outcome = "ok",
           !.rec = data_record[i], !.prevRow = table[k], !.prevOp = lastOp[k],
           !.cached = cached_of(p, k)]
      /\ Return(i)
      /\ UNCHANGED <<config, clock, seen, races>>

\* save_error, lines 239-252: delete_item, then del self._cache[key]
\* (KeyError when the cache has no such key; the item is deleted by then)
SaveError(i) ==
  LET k == get_hashed_idempotency_key(event[i])
      p == procOf[i]
  IN  /\ pc[i] = "handler"
      /\ table' = [table EXCEPT ![k] = delete_item(@)]
      /\ cache' = IF use_local_cache[p]
                  THEN [cache EXCEPT ![p] = cache_remove(@, k)]
                  ELSE cache
      /\ lastOp' = [lastOp EXCEPT ![k] =
           [op |-> "delete", proc |-> p, result |-> <<>>,
            exp |-> IF live(table[k], 0) THEN table[k][expiry_attr] ELSE 0,
            creator |-> "none"]]
      /\ last' = [NoStep EXCEPT
           !.op = "delete", !.inv = i, !.proc = p, !.key = k,
           !.outcome = IF use_local_cache[p] /\ k \notin cache_keys(cache[p])
                       THEN "KeyError" ELSE "ok",
           !.prevRow = table[k], !.prevOp = lastOp[k],
           !.cached = cached_of(p, k)]
      /\ Return(i)
      /\ UNCHANGED <<config, clock, seen, races>>

\* get_record, lines 274-282, called by any invocation of process p
GetRecord(p, e) ==
  LET k == get_hashed_idempotency_key(e)
      cached_record == IF use_local_cache[p]
                       THEN retrieve_from_cache(cache[p], k, clock)
                       ELSE NoRecord
      hit == cached_record # NoRecord
      outcome == IF hit THEN "record" ELSE get_item_outcome(table[k])
      rec == IF hit THEN cached_record
             ELSE IF outcome = "record" THEN item_to_data_record(k, table[k])
             ELSE NoRecord
  IN  /\ cache' = IF use_local_cache[p]
                  THEN [cache EXCEPT ![p] = cache_after_retrieve(@, k, clock)]
                  ELSE cache
      /\ last' = [NoStep EXCEPT
           !.op = "get", !.proc = p, !.key = k, !.outcome = outcome,
           !.rec = rec, !.src = IF hit THEN "cache" ELSE "backend",
           !.prevRow = table[k], !.prevOp = lastOp[k],
           !.cached = cached_of(p, k), !.prior = seen[k]]
      /\ seen' = [seen EXCEPT ![k] =
           IF seen[k] = NoSeen /\ outcome = "record"
              /\ status(rec, clock) = STATUS_CONSTANTS["COMPLETED"]
           THEN [resp |-> response_json_as_dict(rec), exp |-> rec.expiry_timestamp]
           ELSE seen[k]]
      /\ UNCHANGED <<config, clock, table, pc, locals, lastOp, races>>

Next ==
  \/ Tick
  \/ \E i \in slots : \E p \in ProcsOf(i), e \in inputs :
       SaveInprogressBegin(i, p, e)
  \/ \E i \in slots : PutItem(i)
  \/ \E i \in slots, r \in Results : SaveSuccessBegin(i, r)
  \/ \E i \in slots : UpdateRecordStatus(i)
  \/ \E i \in slots : UpdateItem(i)
  \/ \E i \in slots : SaveError(i)
  \/ \E p \in Procs, e \in inputs : GetRecord(p, e)

Spec == Init /\ [][Next]_vars

SpecCache == InitCache /\ [][Next]_vars

SpecKeys == InitKeys /\ [][Next]_vars

SpecRows == InitRows /\ [][Next]_vars

SpecAttrs == InitAttrs /\ [][Next]_vars

(* ------------------------------ properties ----------------------------- *)
\* the record a get_record call returned reads COMPLETED with response r
returned_completed(r) ==
  /\ last.outcome = "record"
  /\ status(last.rec, clock) = STATUS_CONSTANTS["COMPLETED"]
  /\ DictEq(response_json_as_dict(last.rec), r)

\* C1 as stated: of two overlapping save_inprogress calls for one key that
\* began with no live record in the table, exactly one succeeds and the
\* other raises ItemAlreadyExistsError.
C1_ExactlyOneWins == last.race.kind \in {"none", "one"}

\* C1 amended: of two such calls at least one succeeds, and both succeed only
\* when the record the first one wrote had expired before the `now` the
\* second one compares it with.
C1_OneWinsUnlessExpired ==
  /\ last.race.kind # "neither"
  /\ last.race.kind = "both" => last.race.expired

C1_Witness ==
  /\ last.op = "put"
  /\ last.outcome = "ItemAlreadyExistsError"
  /\ last.race.kind = "one"

\* C2 as stated: once a get_record has returned a COMPLETED record with
\* response R for a key, every later get_record for that key made before that
\* record's expiry passes returns a COMPLETED record with the same response.
C2_DuplicateGetsOriginalResult ==
  (last.op = "get" /\ last.prior # NoSeen /\ clock <= last.prior.exp)
    => returned_completed(last.prior.resp)

\* C3 as stated: a get_record that follows save_success(P, R), no other request
\* having changed the item in between, returns a record that reads COMPLETED
\* and whose deserialized response equals R.
C3_SuccessThenGet ==
  (last.op = "get" /\ last.prevOp.op = "update")
    => returned_completed(last.prevOp.result)

\* C3 amended: it does so when it is made no later than the expiry written by
\* save_success and is answered by the table or by the cache of the process
\* that called save_success.
C3_SuccessThenGetBeforeExpiry ==
  (/\ last.op = "get"
   /\ last.prevOp.op = "update"
   /\ clock <= last.prevOp.exp
   /\ last.src = "backend" \/ last.proc = last.prevOp.proc)
    => returned_completed(last.prevOp.result)

C3_Witness ==
  /\ last.op = "get"
  /\ last.prevOp.op = "update"
  /\ clock <= last.prevOp.exp
  /\ last.src = "backend"
  /\ returned_completed(last.prevOp.result)

\* C4: save_error leaves no item for the key, and the save_inprogress that
\* finds the key as save_error left it succeeds, at once.
C4_ErrorReleasesKey ==
  /\ last.op = "delete" => table[last.key] = NoRow
  /\ (last.op = "put" /\ last.prevOp.op = "delete") => last.outcome = "ok"

C4_Witness ==
  /\ last.op = "put"
  /\ last.prevOp.op = "delete"
  /\ last.prevOp.exp >= clock
  /\ last.outcome = "ok"
  /\ live(table[last.key], clock)

\* an item that exists and whose expiry has passed
expired_row(item, t) == item # NoRow /\ ~live(item, t)

C6_ExpiredNeverBlocks ==
  (/\ last.op = "put"
   /\ last.prevRow # NoRow
   /\ last.prevRow[expiry_attr] < last.now)
    => /\ last.outcome = "ok"
       /\ table[last.key] =
            [expiration |-> last.rec.expiry_timestamp,
             status |-> STATUS_CONSTANTS["INPROGRESS"]]
       /\ item_to_data_record(last.key, table[last.key]).response_data = None

C6_Witness ==
  /\ last.op = "put"
  /\ last.outcome = "ok"
  /\ stored_status(last.prevRow) = STATUS_CONSTANTS["COMPLETED"]
  /\ data_attr \in DOMAIN last.prevRow
  /\ last.prevRow[expiry_attr] < last.now
  /\ data_attr \notin DOMAIN table[last.key]

\* C7 as stated: no request takes a key without an item directly to
\* COMPLETED, and no request changes or removes a live COMPLETED item.
C7_StateMachine ==
  last.op \in {"put", "update", "delete"} =>
    /\ (last.prevRow = NoRow /\ table[last.key] # NoRow) =>
          stored_status(table[last.key]) = STATUS_CONSTANTS["INPROGRESS"]
    /\ (/\ live(last.prevRow, clock)
        /\ stored_status(last.prevRow) = STATUS_CONSTANTS["COMPLETED"]) =>
          table[last.key] = last.prevRow

\* C8 as stated: save_success and save_error never overwrite or delete a
\* live item that the save_inprogress of another invocation created.
C8_OnlyCreatorMutates ==
  (/\ last.op \in {"update", "delete"}
   /\ live(last.prevRow, clock)
   /\ last.prevOp.creator \in Invs \ {last.inv})
    => table[last.key] = last.prevRow

\* C9 as stated: with the cache enabled, a get_record made in the process of
\* a save_success(P, R), before the expiry that call wrote and with no other
\* request on the item in between, is answered from the cache with the
\* COMPLETED record.
C9_CachedAfterSuccess ==
  (/\ last.op = "get"
   /\ use_local_cache[last.proc]
   /\ last.prevOp.op = "update"
   /\ last.prevOp.proc = last.proc
   /\ clock <= last.prevOp.exp)
    => last.src = "cache" /\ returned_completed(last.prevOp.result)

\* C9 amended: save_success leaves its record in the cache, and such a
\* get_record is answered from the cache as long as the cache still holds a
\* record for the key (the capacity bound has not evicted it).
C9_CachedUnlessEvicted ==
  /\ (last.op = "update" /\ use_local_cache[last.proc]) =>
        cached_of(last.proc, last.key) = last.rec
  /\ (/\ last.op = "get"
      /\ use_local_cache[last.proc]
      /\ last.prevOp.op = "update"
      /\ last.prevOp.proc = last.proc
      /\ clock <= last.prevOp.exp
      /\ last.cached # NoRecord)
       => /\ last.src = "cache"
          /\ last.rec = last.cached
          /\ returned_completed(last.prevOp.result)

C9_Witness ==
  /\ last.op = "get"
  /\ last.prevOp.op = "update"
  /\ last.prevOp.proc = last.proc
  /\ last.src = "cache"
  /\ returned_completed(last.prevOp.result)

\* C10: a get_record that finds an expired record in the cache does not
\* return it from the cache: it removes it and reads the table; after any
\* get_record the cache holds no expired record for the key.
C10_LazyExpiry ==
  last.op = "get" =>
    /\ (last.cached # NoRecord /\ is_expired(last.cached, clock)) =>
          /\ last.src = "backend"
          /\ last.outcome = get_item_outcome(last.prevRow)
          /\ cached_of(last.proc, last.key) = NoRecord
    /\ \/ cached_of(last.proc, last.key) = NoRecord
       \/ ~is_expired(cached_of(last.proc, last.key), clock)

C10_Witness ==
  /\ last.op = "get"
  /\ last.cached # NoRecord
  /\ is_expired(last.cached, clock)
  /\ last.src = "backend"
  /\ cached_of(last.proc, last.key) = NoRecord

\* C11 as stated: save_error never raises, whatever the table and the cache
\* of the calling process hold for the key, and afterwards neither of them
\* holds a record for the key.
C11_SaveErrorNeverRaises ==
  last.op = "delete" =>
    /\ last.outcome = "ok"
    /\ table[last.key] = NoRow
    /\ cached_of(last.proc, last.key) = NoRecord

\* C12 as stated: the key save_inprogress derives for an event is the key of
\* every event whose extracted value ("body") is the same JSON value, also
\* when the members of the object are listed in another order.
C12_EqualValuesSameKey ==
  \A i \in slots :
    pc[i] = "put_item" =>
      \A e \in inputs :
        DictEq(event_key_jmespath_search(e), event_key_jmespath_search(event[i]))
          => get_hashed_idempotency_key(e) = data_record[i].idempotency_key

\* the stored statuses the record lifecycle knows
STORABLE == {STATUS_CONSTANTS["INPROGRESS"], STATUS_CONSTANTS["COMPLETED"],
             STATUS_CONSTANTS["ERROR"]}

\* C13 as stated: the status of a record get_record returns reads EXPIRED
\* when the record is expired, else the stored status when that is
\* INPROGRESS, COMPLETED or ERROR, and reading it raises InvalidStatusError
\* for every other stored value.
C13_StatusOfRecord ==
  (last.op = "get" /\ last.outcome = "record") =>
    status(last.rec, clock) =
      IF is_expired(last.rec, clock) THEN STATUS_CONSTANTS["EXPIRED"]
      ELSE IF last.rec.status \in STORABLE THEN last.rec.status
      ELSE "InvalidStatusError"

\* the records held by the table (as _item_to_data_record reads them) and by
\* the caches
RecordsHeld ==
  {item_to_data_record(k, table[k]) :
     k \in {h \in Keys : table[h] # NoRow /\ item_has_attrs(table[h])}}
  \cup UNION {{cache[p][j] : j \in DOMAIN cache[p]} : p \in Procs}

\* C14 as stated: a record held by the table or a cache has a response if
\* and only if its status, as read now, is COMPLETED.
C14_ResponseIffCompleted ==
  \A rec \in RecordsHeld :
    (rec.response_data # None) <=>
      (status(rec, clock) = STATUS_CONSTANTS["COMPLETED"])

\* C14 amended: a record that reads COMPLETED has a response, and a record
\* with a response reads COMPLETED or, once its expiry has passed, EXPIRED
\* (so a record that reads INPROGRESS has none).
C14_ResponseWhenCompletedOrExpired ==
  \A rec \in RecordsHeld :
    /\ status(rec, clock) = STATUS_CONSTANTS["COMPLETED"] =>
          rec.response_data # None
    /\ rec.response_data # None =>
          status(rec, clock) \in {STATUS_CONSTANTS["COMPLETED"],
                                  STATUS_CONSTANTS["EXPIRED"]}

C14_Witness ==
  /\ \E k \in Keys :
       /\ table[k] # NoRow
       /\ data_attr \in DOMAIN table[k]
       /\ stored_status(table[k]) = STATUS_CONSTANTS["COMPLETED"]
       /\ status(item_to_data_record(k, table[k]), clock) =
            STATUS_CONSTANTS["EXPIRED"]
  /\ \E rec \in RecordsHeld :
       /\ rec.response_data = None
       /\ status(rec, clock) = STATUS_CONSTANTS["INPROGRESS"]

\* C15 as stated: the status attribute of every item in the table is
\* INPROGRESS, COMPLETED or ERROR, never EXPIRED.
C15_ExpiredNeverStored ==
  \A k \in Keys :
    table[k] # NoRow => stored_status(table[k]) \in STORABLE

\* C16: a save_inprogress whose conditional put fails (it raises
\* ItemAlreadyExistsError and returns) leaves the table and every cache
\* exactly as they were.
C16_LosingPutChangesNothing ==
  [][\A i \in Invs :
       (pc[i] = "put_item" /\ pc'[i] = "idle") => UNCHANGED <<table, cache>>]_vars

C16_Witness ==
  /\ last.op = "put"
  /\ last.outcome = "ItemAlreadyExistsError"
  /\ last.prevRow # NoRow
  /\ table[last.key] = last.prevRow
  /\ last.cached # NoRecord
  /\ cached_of(last.proc, last.key) = last.cached

\* C17: whether save_inprogress succeeds or raises ItemAlreadyExistsError is
\* decided by the stored item and the call's `now` alone (no item, or an
\* expiry before `now`), whatever the cache of the calling process holds
\* for the key.
C17_CacheNotAuthoritative ==
  last.op = "put" =>
    (last.outcome = "ok" <=>
       \/ last.prevRow = NoRow
       \/ last.prevRow["expiration"] < last.now)

\* a save_inprogress succeeded although the cache of its process held a live
\* record for the key
C17_Witness ==
  /\ last.op = "put"
  /\ last.outcome = "ok"
  /\ last.cached # NoRecord
  /\ ~is_expired(last.cached, last.now)
  /\ last.prevRow = NoRow

\* C18 as stated: with the cache enabled, a get_record that finds no live
\* record in the cache and reads a live record from the table leaves that
\* record in the cache (so that the next get_record is answered from it).
C18_GetRepopulatesCache ==
  (/\ last.op = "get"
   /\ use_local_cache[last.proc]
   /\ last.src = "backend"
   /\ last.outcome = "record"
   /\ ~is_expired(last.rec, clock))
    => cached_of(last.proc, last.key) = last.rec

\* C19 as stated: under every choice of the attribute names, a get_record
\* that follows a save_inprogress and reads the table returns an INPROGRESS
\* record with the expiry that call wrote, and a conditional put that
\* follows a save_inprogress or save_success
\* succeeds exactly when the expiry last written to it (by save_inprogress
\* or save_success) lies before the call's `now`.
C19_SameAttributes ==
  /\ (last.op = "get" /\ last.prevOp.op = "put" /\ last.src = "backend") =>
        /\ last.outcome = "record"
        /\ last.rec.status = STATUS_CONSTANTS["INPROGRESS"]
        /\ last.rec.expiry_timestamp = last.prevOp.exp
  /\ (last.op = "put" /\ last.prevOp.op \in {"put", "update"}) =>
        (last.outcome = "ok" <=> last.prevOp.exp < last.now)

\* C20 as stated: for every stored expiry (0 included) and every time, the
\* record read from an item reports is_expired at the `now` of a
\* save_inprogress exactly when that call's conditional put passes and
\* replaces the item.
C20_ExpiryTestsAgree ==
  (last.op = "put" /\ last.prevRow # NoRow /\ item_has_attrs(last.prevRow)) =>
    (is_expired(item_to_data_record(last.key, last.prevRow), last.now)
       <=> /\ last.outcome = "ok"
           /\ table[last.key] = put_item(last.prevRow, last.rec))
====
